---- MODULE Spec2Model ----
(***************************************************************************)
(* A model of read_humidity.py: the serial stream-to-archive pipeline of   *)
(* main().  The byte source is a finite prefix of the device's stream, the *)
(* clock is the UTC wall clock in whole seconds, and each archive is the   *)
(* list of lines of its metrics.csv member.                                *)
(***************************************************************************)
EXTENDS Integers, Sequences, FiniteSets, TLC

VARIABLES
    pc,          \* position of main(): "args","found","serial" (lines 68-80), then
                 \* "sync","hdr","init","open","check","read","decode","append","done"
    now,         \* datetime.utcnow(), seconds since midnight of day 0
    source,      \* the bytes the serial device delivers, in order
    pos,         \* how many bytes of source have been consumed by port.read*/read_until
    portOpen,    \* the Serial object is open (line 77) until `with port` exits
    exitStatus,  \* "running", "ok" (main returned), "error" (uncaught exception)
    checkpoint,  \* local `checkpoint` (lines 86, 101), NoTime before line 86
    data,        \* local `data`: the 28 bytes read at line 104, then the SoilHumidity of line 107
    archives,    \* every zip archive created so far, in creation order
    \* history (not program state)
    noiseLen,    \* length of the noise that precedes the sync marker in source
    startup,     \* the utcnow() reading at line 86, NoTime before
    cause,       \* why main() ended: "none", "interrupt", "ioerror", "openfail",
                 \* "notfound", "attribute", "serialfail"
    exitAt,      \* the value of pc when main() ended, "none" while it runs
    arrivals,    \* the clock at each return of port.read(28) at line 104, in order
    decoded,     \* the SoilHumidity objects built at line 107, in order
    closeLog,    \* what has been closed so far, in order: "archive", "port"
    twin,        \* the archives of the run on the same bytes and clock with verbose and quiet off
    \* command line, console and serial ports
    verbose,     \* args.verbose
    quiet,       \* args.quiet
    argsPort,    \* args.port, "" when absent
    found,       \* local `port` of line 69, NoPort when None or not assigned
    devices,     \* what comports() returns at this moment
    console      \* the lines printed so far

\* what the pipeline of lines 82-115 never assigns
cli == <<verbose, quiet, argsPort, found, devices>>

vars == <<pc, now, source, pos, portOpen, exitStatus, checkpoint, data, archives,
          noiseLen, startup, cause, exitAt, arrivals, decoded, closeLog, twin, cli, console>>

---------------------------------------------------------------------------
(* Bounds of the model *)

MaxRecords == 2      \* records the device delivers before it falls silent
MaxHours == 2        \* the clock runs from 12:00:00 to (12 + MaxHours):59:59
MaxChunks == 3       \* noise of the framing specification: number of chunks
MaxPorts == 2        \* serial ports attached at the same time

(* Program constants *)

HourSeconds == 3600  \* timedelta(hours=1)
HeaderLen == 22      \* port.read(22)
RecordLen == 28      \* port.read(28), struct "HHHHHHHHfff"

Marker == <<154, 22, 82, 118, 168, 27>>   \* b'\x9a\x16\x52\x76\xa8\x1b'

NoTime == -1
NoData == <<>>

---------------------------------------------------------------------------
(* The clock *)

Offsets == {0, 1065}     \* hh:00:00 and hh:17:45

ClockValues == {(12 + h) * HourSeconds + o : h \in 0..MaxHours, o \in Offsets}

StartTimes == {12 * HourSeconds + o : o \in Offsets}

---------------------------------------------------------------------------
(* Pure functions of the program *)

\* the checkpoint starts at utcnow() itself, not at the start of its hour
Truncate_None(t) == t

\* datetime.replace(minute=0, second=0, microsecond=0)
Truncate(t) == t - (t % HourSeconds)

\* the checkpoint is re-aligned to the hour after the current clock reading
Advance_Realign(cp) == (now - (now % 3600)) + 3600

\* the checkpoint is left where it is
Advance_None(cp) == cp

\* checkpoint += timedelta(hours=1)
Advance(cp) == cp + HourSeconds

\* the loop goes on while utcnow() <= checkpoint
KeepReading_Inclusive(t, cp) == t <= cp

\* the condition of the inner while loop: keep reading while utcnow() < checkpoint
KeepReading(t, cp) == t < cp

\* f"{datetime.utcnow():%Y-%m-%d/%H-%M-%S}.zip": the day, then hour, minute, second
\* the path keeps the date only: {:%Y-%m-%d}.zip
PathOf_DateOnly(t) == <<t \div 86400, 0, 0, 0>>

PathOf(t) == <<t \div 86400, (t % 86400) \div 3600, (t % 3600) \div 60, t % 60>>

\* list(SoilHumidity.schema()["properties"].keys()): the fields in declaration order
Columns == <<"timestamp", "potId", "airLevel", "waterLevel", "soilHumidity",
             "soilHumidityPercent", "airTemperature", "airHumidity", "heatIndex">>

ColumnSet == {Columns[i] : i \in 1..Len(Columns)}

ColumnIndex(c) == CHOOSE i \in 1..Len(Columns) : Columns[i] = c

\* struct "H": an unsigned 16-bit integer, low byte first
Uint16(b) == b[1] + 256 * b[2]

\* struct "f": an IEEE-754 single, low byte first, as <<sign, exponent, fraction>>
Float32(b) == <<b[4] \div 128,
                (b[4] % 128) * 2 + (b[3] \div 128),
                (b[3] % 128) * 65536 + b[2] * 256 + b[1]>>

\* unpack("HHHHHHHHfff", bytes): 8 integers then 3 floats
Unpack(b) ==
    [i \in 1..11 |->
        IF i <= 8 THEN Uint16(SubSeq(b, 2 * i - 1, 2 * i))
        ELSE Float32(SubSeq(b, 16 + 4 * (i - 9) + 1, 16 + 4 * (i - 9) + 4))]

\* data[2:]: only two of the three leading integers are skipped
Drop2(t) == [i \in 1..(Len(t) - 2) |-> t[i + 2]]

\* data[3:]
Drop3(t) == [i \in 1..(Len(t) - 3) |-> t[i + 3]]

\* SoilHumidity(**{k: v for k, v in zip(columns[1:], data[3:])}), timestamp by default_factory
SoilHumidity(t, fields) ==
    [c \in ColumnSet |->
        IF c = "timestamp" THEN t ELSE Drop3(fields)[ColumnIndex(c) - 1]]

\* DictWriter.writeheader() and DictWriter.writerow(data.dict()): cells in fieldnames order
HeaderLine == [kind |-> "header", cells |-> Columns]

RowLine(reading) ==
    [kind |-> "row", cells |-> [i \in 1..Len(Columns) |-> reading[Columns[i]]]]

\* the scan stops at the last occurrence of the marker in the bytes available
ReadUntil_Last(s, p) ==
    LET ends == {n \in Len(Marker)..(Len(s) - p) :
                    SubSeq(s, p + n - Len(Marker) + 1, p + n) = Marker}
    IN  IF ends = {} THEN 0
        ELSE CHOOSE n \in ends : \A m \in ends : n >= m

\* port.read_until(marker): the number of bytes consumed from position p, up to
\* and including the first occurrence of the marker; 0 while the marker has not come
ReadUntil(s, p) ==
    LET ends == {n \in Len(Marker)..(Len(s) - p) :
                    SubSeq(s, p + n - Len(Marker) + 1, p + n) = Marker}
    IN  IF ends = {} THEN 0
        ELSE CHOOSE n \in ends : \A m \in ends : n <= m

---------------------------------------------------------------------------
(* The byte source *)

Bytes16(v) == <<v % 256, v \div 256>>

\* the i-th wire record: 8 unsigned shorts, then 25.0, 50.0 and 26.0 as floats
WireRecord(i) ==
    Bytes16(900 + i) \o Bytes16(910 + i) \o Bytes16(920 + i) \o
    Bytes16(i) \o Bytes16(300 + i) \o Bytes16(600 + i) \o Bytes16(450 + i) \o Bytes16(50 + i) \o
    <<0, 0, 200, 65>> \o <<0, 0, 72, 66>> \o <<0, 0, 208, 65>>

RECURSIVE Payload(_)
Payload(n) == IF n = 0 THEN <<>> ELSE Payload(n - 1) \o WireRecord(n)

DeviceHeader == [i \in 1..HeaderLen |-> 238]

LineNoise == <<0, 154, 22>>

---------------------------------------------------------------------------
(* Archives *)

\* writeheader() is left out
NewArchive_NoHeader(t) == [path |-> PathOf(t), lines |-> <<>>, open |-> TRUE, checks |-> 0]

\* a new archive: its path, the header line written by writeheader(), open;
\* `checks` is history, the number of times line 102 was evaluated for it
NewArchive(t) == [path |-> PathOf(t), lines |-> <<HeaderLine>>, open |-> TRUE, checks |-> 0]

\* the archive is finalized without flushing the text wrapper: its last row is lost
CloseCurrent_NoFlush(as) ==
    [k \in 1..Len(as) |->
        IF as[k].open
        THEN [as[k] EXCEPT !.open = FALSE,
                           !.lines = IF Len(@) > 1 THEN SubSeq(@, 1, Len(@) - 1) ELSE @]
        ELSE as[k]]

\* the `with` blocks are left without closing anything
CloseCurrent_Leak(as) == as

\* leaving the three `with` blocks of lines 96-98: the open archive is finalized
CloseCurrent(as) ==
    [k \in 1..Len(as) |-> IF as[k].open THEN [as[k] EXCEPT !.open = FALSE] ELSE as[k]]

DataRows(a) == SelectSeq(a.lines, LAMBDA l : l.kind = "row")

\* the row is written in verbose mode only
RowWritten_VerboseOnly(as, reading, v) ==
    IF v THEN [as EXCEPT ![Len(as)].lines = Append(@, RowLine(reading))] ELSE as

\* line 108: writer.writerow(data.dict()) on the archive being written, whatever
\* args.verbose is
RowWritten(as, reading, v) == [as EXCEPT ![Len(as)].lines = Append(@, RowLine(reading))]

\* the port is closed first, the archive after it
ExitCloses_PortFirst(as) ==
    <<"port">> \o (IF \E k \in 1..Len(as) : as[k].open THEN <<"archive">> ELSE <<>>)

\* what an exception closes on its way out of main(): the archive of the inner
\* `with` blocks (lines 96-98) if one is open, then the port of line 82
ExitCloses(as) ==
    (IF \E k \in 1..Len(as) : as[k].open THEN <<"archive">> ELSE <<>>) \o <<"port">>

---------------------------------------------------------------------------
(* Console *)

\* lines 93-94: if not args.quiet: print(f"Writing to {path}")
Announce(out, q, t) ==
    IF q THEN out ELSE Append(out, [kind |-> "writing", what |-> PathOf(t)])

\* lines 109-110: if args.verbose: print(data.json())
Echo(out, v, reading) ==
    IF v THEN Append(out, [kind |-> "json", what |-> reading]) ELSE out

---------------------------------------------------------------------------
(* Serial ports *)

Arduino == "Arduino (www.arduino.cc)"

NoPort == [device |-> "", manufacturer |-> ""]

\* the ports that may be attached
PortChoices ==
    { [device |-> "ttyACM0", manufacturer |-> Arduino],
      [device |-> "ttyACM1", manufacturer |-> Arduino],
      [device |-> "ttyUSB0", manufacturer |-> "FTDI"] }

\* the lists comports() may return: up to MaxPorts different ports, in any order
PortLists ==
    { l \in UNION { [1..n -> PortChoices] : n \in 0..MaxPorts } :
          \A i, j \in 1..Len(l) : i # j => l[i] # l[j] }

Matches(ports) == {i \in 1..Len(ports) : ports[i].manufacturer = Arduino}

\* lines 16-19: the first port of comports() with the known manufacturer, else None
suggest_comport(ports) ==
    IF Matches(ports) = {} THEN NoPort
    ELSE ports[CHOOSE i \in Matches(ports) : \A j \in Matches(ports) : i <= j]

---------------------------------------------------------------------------
(* Initial states: the Serial object has just been constructed (line 77) *)

\* the locals of main(), and the console, before line 82
InitLocals(noise, header, payload) ==
    /\ source = noise \o Marker \o header \o payload
    /\ noiseLen = Len(noise)
    /\ pos = 0
    /\ exitStatus = "running"
    /\ checkpoint = NoTime
    /\ data = NoData
    /\ archives = <<>>
    /\ startup = NoTime
    /\ cause = "none"
    /\ exitAt = "none"
    /\ arrivals = <<>>
    /\ decoded = <<>>
    /\ closeLog = <<>>
    /\ twin = <<>>
    /\ console = <<>>

InitStream(noise, header, payload) ==
    /\ pc = "sync"
    /\ portOpen = TRUE
    /\ InitLocals(noise, header, payload)

\* the command line named the port; v and q are args.verbose and args.quiet
InitArgs(v, q) ==
    /\ verbose = v
    /\ quiet = q
    /\ argsPort = "ttyACM0"
    /\ found = NoPort
    /\ devices = <<[device |-> "ttyACM0", manufacturer |-> Arduino]>>

InitPipeline(noise, header, records) == InitStream(noise, header, Payload(records))

Init ==
    /\ now \in StartTimes
    /\ InitPipeline(LineNoise, DeviceHeader, MaxRecords)
    /\ InitArgs(FALSE, FALSE)

---------------------------------------------------------------------------
(* The environment: the wall clock moves forward, by any amount *)

Tick ==
    /\ pc # "done"
    /\ \E t \in ClockValues : t > now /\ now' = t
    /\ UNCHANGED <<pc, source, pos, portOpen, exitStatus, checkpoint, data, archives,
                   noiseLen, startup, cause, exitAt, arrivals, decoded>>
    /\ UNCHANGED <<console, twin, closeLog>>
    /\ UNCHANGED cli

---------------------------------------------------------------------------
(* main(), lines 82-115 *)

\* line 83: port.read_until(marker) returns once the marker has been read
Sync ==
    /\ pc = "sync"
    /\ ReadUntil(source, pos) > 0
    /\ pos' = pos + ReadUntil(source, pos)
    /\ pc' = "hdr"
    /\ UNCHANGED <<now, source, portOpen, exitStatus, checkpoint, data, archives,
                   noiseLen, startup, cause, exitAt, arrivals, decoded>>
    /\ UNCHANGED <<console, twin, closeLog>>
    /\ UNCHANGED cli

\* line 84: port.read(22) returns once 22 more bytes have come
ReadHeader ==
    /\ pc = "hdr"
    /\ pos + HeaderLen <= Len(source)
    /\ pos' = pos + HeaderLen
    /\ pc' = "init"
    /\ UNCHANGED <<now, source, portOpen, exitStatus, checkpoint, data, archives,
                   noiseLen, startup, cause, exitAt, arrivals, decoded>>
    /\ UNCHANGED <<console, twin, closeLog>>
    /\ UNCHANGED cli

\* lines 86-87: checkpoint = utcnow() truncated to the hour
InitCheckpoint ==
    /\ pc = "init"
    /\ checkpoint' = Truncate(now)
    /\ startup' = now
    /\ pc' = "open"
    /\ UNCHANGED <<now, source, pos, portOpen, exitStatus, data, archives,
                   noiseLen, cause, exitAt, arrivals, decoded>>
    /\ UNCHANGED <<console, twin, closeLog>>
    /\ UNCHANGED cli

\* the loop body runs once before the loop condition is first evaluated
OpenArchive_DoWhile ==
    /\ pc = "open"
    /\ archives' = Append(archives, [path |-> PathOf(now), lines |-> <<HeaderLine>>,
                                     open |-> TRUE, checks |-> 0])
    /\ checkpoint' = Advance(checkpoint)
    /\ pc' = "read"
    /\ UNCHANGED <<now, source, pos, portOpen, exitStatus, data,
                   noiseLen, startup, cause, exitAt, arrivals, decoded>>
    /\ twin' = Append(twin, NewArchive(now))
    /\ console' = Announce(console, quiet, now)
    /\ UNCHANGED closeLog
    /\ UNCHANGED cli

\* lines 89-101: compute the path, create the archive, write the header line,
\* advance the checkpoint
OpenArchive ==
    /\ pc = "open"
    /\ archives' = Append(archives, NewArchive(now))
    /\ checkpoint' = Advance(checkpoint)
    /\ pc' = "check"
    /\ UNCHANGED <<now, source, pos, portOpen, exitStatus, data,
                   noiseLen, startup, cause, exitAt, arrivals, decoded>>
    /\ twin' = Append(twin, NewArchive(now))
    /\ console' = Announce(console, quiet, now)
    /\ UNCHANGED closeLog
    /\ UNCHANGED cli

\* line 102, condition true: enter the loop body
CheckContinue ==
    /\ pc = "check"
    /\ KeepReading(now, checkpoint)
    /\ archives' = [archives EXCEPT ![Len(archives)].checks = @ + 1]
    /\ pc' = "read"
    /\ UNCHANGED <<now, source, pos, portOpen, exitStatus, checkpoint, data,
                   noiseLen, startup, cause, exitAt, arrivals, decoded>>
    /\ twin' = [twin EXCEPT ![Len(twin)].checks = @ + 1]
    /\ UNCHANGED <<console, closeLog>>
    /\ UNCHANGED cli

\* after a rotation the stream is synchronized again before the next archive
CheckRotate_Resync ==
    /\ pc = "check"
    /\ ~KeepReading(now, checkpoint)
    /\ archives' = CloseCurrent([archives EXCEPT ![Len(archives)].checks = @ + 1])
    /\ pc' = "sync"
    /\ UNCHANGED <<now, source, pos, portOpen, exitStatus, checkpoint, data,
                   noiseLen, startup, cause, exitAt, arrivals, decoded>>
    /\ twin' = CloseCurrent([twin EXCEPT ![Len(twin)].checks = @ + 1])
    /\ closeLog' = Append(closeLog, "archive")
    /\ UNCHANGED console
    /\ UNCHANGED cli

\* the hour boundary is acted upon as soon as it has passed, also when a decoded
\* reading is waiting to be written
CheckRotate_Async ==
    /\ pc \in {"check", "append"}
    /\ ~KeepReading(now, checkpoint)
    /\ archives' = CloseCurrent([archives EXCEPT ![Len(archives)].checks = @ + 1])
    /\ pc' = "open"
    /\ UNCHANGED <<now, source, pos, portOpen, exitStatus, checkpoint, data,
                   noiseLen, startup, cause, exitAt, arrivals, decoded>>
    /\ twin' = CloseCurrent([twin EXCEPT ![Len(twin)].checks = @ + 1])
    /\ closeLog' = Append(closeLog, "archive")
    /\ UNCHANGED console
    /\ UNCHANGED cli

\* line 102, condition false: leave the `with` blocks (the archive is closed) and
\* go round the outer loop
CheckRotate ==
    /\ pc = "check"
    /\ ~KeepReading(now, checkpoint)
    /\ archives' = CloseCurrent([archives EXCEPT ![Len(archives)].checks = @ + 1])
    /\ pc' = "open"
    /\ UNCHANGED <<now, source, pos, portOpen, exitStatus, checkpoint, data,
                   noiseLen, startup, cause, exitAt, arrivals, decoded>>
    /\ twin' = CloseCurrent([twin EXCEPT ![Len(twin)].checks = @ + 1])
    /\ closeLog' = Append(closeLog, "archive")
    /\ UNCHANGED console
    /\ UNCHANGED cli

\* line 104: port.read(28) returns once 28 more bytes have come
ReadRecord ==
    /\ pc = "read"
    /\ pos + RecordLen <= Len(source)
    /\ data' = SubSeq(source, pos + 1, pos + RecordLen)
    /\ pos' = pos + RecordLen
    /\ arrivals' = Append(arrivals, now)
    /\ pc' = "decode"
    /\ UNCHANGED <<now, source, portOpen, exitStatus, checkpoint, archives,
                   noiseLen, startup, cause, exitAt, decoded>>
    /\ UNCHANGED <<console, twin, closeLog>>
    /\ UNCHANGED cli

\* lines 104, 107: unpack the bytes and build the SoilHumidity, stamped utcnow()
Decode ==
    /\ pc = "decode"
    /\ data' = SoilHumidity(now, Unpack(data))
    /\ decoded' = Append(decoded, data')
    /\ pc' = "append"
    /\ UNCHANGED <<now, source, pos, portOpen, exitStatus, checkpoint, archives,
                   noiseLen, startup, cause, exitAt, arrivals>>
    /\ UNCHANGED <<console, twin, closeLog>>
    /\ UNCHANGED cli

\* the reading is rejected as invalid data and no row is written
AppendRow_Invalid ==
    /\ pc = "append"
    /\ pc' = "check"
    /\ UNCHANGED <<now, source, pos, portOpen, exitStatus, checkpoint, data, archives,
                   noiseLen, startup, cause, exitAt, arrivals, decoded>>
    /\ UNCHANGED <<console, twin, closeLog>>
    /\ UNCHANGED cli

\* the row is written twice
AppendRow_Twice ==
    /\ pc = "append"
    /\ archives' = [archives EXCEPT
                      ![Len(archives)].lines = Append(Append(@, RowLine(data)), RowLine(data))]
    /\ pc' = "check"
    /\ UNCHANGED <<now, source, pos, portOpen, exitStatus, checkpoint, data,
                   noiseLen, startup, cause, exitAt, arrivals, decoded>>
    /\ twin' = RowWritten(twin, data, FALSE)
    /\ console' = Echo(console, verbose, data)
    /\ UNCHANGED closeLog
    /\ UNCHANGED cli

\* line 108: writer.writerow(data.dict()), then back to the loop condition
AppendRow ==
    /\ pc = "append"
    /\ archives' = RowWritten(archives, data, verbose)
    /\ pc' = "check"
    /\ UNCHANGED <<now, source, pos, portOpen, exitStatus, checkpoint, data,
                   noiseLen, startup, cause, exitAt, arrivals, decoded>>
    /\ twin' = RowWritten(twin, data, FALSE)
    /\ console' = Echo(console, verbose, data)
    /\ UNCHANGED closeLog
    /\ UNCHANGED cli

---------------------------------------------------------------------------
(* Exits *)

TryPcs == {"init", "open", "check", "read", "decode", "append"}

\* how main() ends once an exception leaves the `with` blocks: the open archive
\* (if any) is closed, then the port
Unwind(status, why) ==
    /\ archives' = CloseCurrent(archives)
    /\ portOpen' = FALSE
    /\ exitStatus' = status
    /\ cause' = why
    /\ exitAt' = pc
    /\ pc' = "done"
    /\ UNCHANGED <<now, source, pos, checkpoint, data, noiseLen, startup, arrivals, decoded>>
    /\ twin' = CloseCurrent(twin)
    /\ closeLog' = closeLog \o ExitCloses(archives)
    /\ UNCHANGED console
    /\ UNCHANGED cli

\* the interrupt ends the process on the spot: nothing is closed, nothing is caught
Interrupt_Kill ==
    /\ pc \in {"init", "open", "check", "read", "decode", "append"}
    /\ portOpen' = FALSE
    /\ exitStatus' = "error"
    /\ cause' = "interrupt"
    /\ exitAt' = pc
    /\ pc' = "done"
    /\ UNCHANGED <<now, source, pos, checkpoint, data, archives, noiseLen, startup,
                   arrivals, decoded>>
    /\ UNCHANGED <<console, twin, closeLog>>
    /\ UNCHANGED cli

\* lines 85, 114-115: a KeyboardInterrupt raised anywhere inside the try block
\* is caught and main() returns
Interrupt ==
    /\ pc \in TryPcs
    /\ Unwind("ok", "interrupt")

\* lines 82-84: a KeyboardInterrupt raised during synchronization is outside the
\* try block and is not caught
InterruptSync ==
    /\ pc \in {"sync", "hdr"}
    /\ Unwind("error", "interrupt")

\* the failed read is retried: the error is noted and the read is issued again
ReadError_Retry ==
    /\ pc \in {"sync", "hdr", "read"}
    /\ cause' = "ioerror"
    /\ exitAt' = pc
    /\ UNCHANGED <<pc, now, source, pos, portOpen, exitStatus, checkpoint, data, archives,
                   noiseLen, startup, arrivals, decoded>>
    /\ UNCHANGED <<console, twin, closeLog>>
    /\ UNCHANGED cli

\* lines 83, 84, 104: the port raises (device unplugged); nothing catches it
ReadError ==
    /\ pc \in {"sync", "hdr", "read"}
    /\ Unwind("error", "ioerror")

\* lines 92, 96-97: mkdir or ZipFile raises; nothing catches it
OpenFail ==
    /\ pc = "open"
    /\ Unwind("error", "openfail")

---------------------------------------------------------------------------
(* Specifications *)

Next ==
    \/ Tick
    \/ Sync
    \/ ReadHeader
    \/ InitCheckpoint
    \/ OpenArchive
    \/ CheckContinue
    \/ CheckRotate
    \/ ReadRecord
    \/ Decode
    \/ AppendRow
    \/ Interrupt
    \/ InterruptSync
    \/ ReadError
    \/ OpenFail

Spec == Init /\ [][Next]_vars

---------------------------------------------------------------------------
(* Framing: the same program on sources whose noise and device header vary, *)
(* followed from the start of main() to the decoder's first read            *)

NoiseChunks == {<<0>>, <<154>>, <<27>>, SubSeq(Marker, 1, 5), SubSeq(Marker, 2, 6), Marker}

RECURSIVE Noises(_)
Noises(n) ==
    IF n = 0 THEN {<<>>}
    ELSE Noises(n - 1) \cup {x \o c : x \in Noises(n - 1), c \in NoiseChunks}

HeaderChoices == {DeviceHeader, Marker \o [i \in 1..(HeaderLen - Len(Marker)) |-> 0]}

InitSync ==
    /\ now \in StartTimes
    /\ \E noise \in Noises(MaxChunks), header \in HeaderChoices :
           InitPipeline(noise, header, 1)
    /\ InitArgs(FALSE, FALSE)

NextSync ==
    \/ Sync
    \/ ReadHeader
    \/ InitCheckpoint
    \/ OpenArchive
    \/ CheckContinue
    \/ ReadRecord

SpecSync == InitSync /\ [][NextSync]_vars

---------------------------------------------------------------------------
(* Decoding: the same program on a source whose first record varies, followed *)
(* from the start of main() to the first row written                          *)

IntChoices == {258, 65535}

FloatChoices == {<<0, 0, 200, 65>>, <<1, 2, 131, 192>>}

\* the 28 bytes of a record: 8 unsigned shorts low byte first, then 3 floats
EncodeRecord(ints, floats) ==
    Bytes16(ints[1]) \o Bytes16(ints[2]) \o Bytes16(ints[3]) \o Bytes16(ints[4]) \o
    Bytes16(ints[5]) \o Bytes16(ints[6]) \o Bytes16(ints[7]) \o Bytes16(ints[8]) \o
    floats[1] \o floats[2] \o floats[3]

InitDecode ==
    /\ now \in StartTimes
    /\ \E ints \in [1..8 -> IntChoices], floats \in [1..3 -> FloatChoices] :
           InitStream(LineNoise, DeviceHeader, EncodeRecord(ints, floats))
    /\ InitArgs(FALSE, FALSE)

NextDecode ==
    \/ Sync
    \/ ReadHeader
    \/ InitCheckpoint
    \/ OpenArchive
    \/ CheckContinue
    \/ ReadRecord
    \/ Decode
    \/ AppendRow

SpecDecode == InitDecode /\ [][NextDecode]_vars

---------------------------------------------------------------------------
(* main(), lines 68-80: choosing and opening the port *)

\* what lines 68-80 never assign
pipeline == <<now, source, pos, checkpoint, data, archives, noiseLen, startup,
              arrivals, decoded, closeLog, twin, verbose, quiet>>

StartPcs == {"args", "found", "serial"}

\* the environment: ports are plugged and unplugged while main() starts
Replug ==
    /\ pc \in StartPcs
    /\ \E l \in PortLists : l # devices /\ devices' = l
    /\ UNCHANGED <<pc, portOpen, exitStatus, cause, exitAt, argsPort, found, console>>
    /\ UNCHANGED pipeline

\* line 68 false: a port was named on the command line
PortGiven ==
    /\ pc = "args"
    /\ argsPort # ""
    /\ pc' = "serial"
    /\ UNCHANGED <<portOpen, exitStatus, cause, exitAt, argsPort, found, devices, console>>
    /\ UNCHANGED pipeline

\* lines 68-69: port = suggest_comport()
Suggest ==
    /\ pc = "args"
    /\ argsPort = ""
    /\ found' = suggest_comport(devices)
    /\ pc' = "found"
    /\ UNCHANGED <<portOpen, exitStatus, cause, exitAt, argsPort, devices, console>>
    /\ UNCHANGED pipeline

\* line 70 false: port is None
NothingFound ==
    /\ pc = "found"
    /\ found = NoPort
    /\ pc' = "serial"
    /\ UNCHANGED <<portOpen, exitStatus, cause, exitAt, argsPort, found, devices, console>>
    /\ UNCHANGED pipeline

\* lines 70-71: args.port = suggest_comport().device, the ports enumerated again
SuggestAgain ==
    /\ pc = "found"
    /\ found # NoPort
    /\ suggest_comport(devices) # NoPort
    /\ argsPort' = suggest_comport(devices).device
    /\ pc' = "serial"
    /\ UNCHANGED <<portOpen, exitStatus, cause, exitAt, found, devices, console>>
    /\ UNCHANGED pipeline

\* lines 70-71: the second suggest_comport() returns None and `.device` raises
\* AttributeError, which nothing catches
SuggestGone ==
    /\ pc = "found"
    /\ found # NoPort
    /\ suggest_comport(devices) = NoPort
    /\ exitStatus' = "error"
    /\ cause' = "attribute"
    /\ exitAt' = pc
    /\ pc' = "done"
    /\ UNCHANGED <<portOpen, argsPort, found, devices, console>>
    /\ UNCHANGED pipeline

\* lines 73-75: print("Device not found"); return
DeviceNotFound ==
    /\ pc = "serial"
    /\ argsPort = ""
    /\ console' = Append(console, [kind |-> "text", what |-> "Device not found"])
    /\ exitStatus' = "ok"
    /\ cause' = "notfound"
    /\ exitAt' = pc
    /\ pc' = "done"
    /\ UNCHANGED <<portOpen, argsPort, found, devices>>
    /\ UNCHANGED pipeline

\* lines 77-82: Serial(port=args.port, ...) opens the named device
OpenSerial ==
    /\ pc = "serial"
    /\ argsPort # ""
    /\ \E i \in 1..Len(devices) : devices[i].device = argsPort
    /\ portOpen' = TRUE
    /\ pc' = "sync"
    /\ UNCHANGED <<exitStatus, cause, exitAt, argsPort, found, devices, console>>
    /\ UNCHANGED pipeline

\* lines 77-80: Serial(...) raises (the device is gone, busy or forbidden);
\* nothing catches it
OpenSerialFail ==
    /\ pc = "serial"
    /\ argsPort # ""
    /\ exitStatus' = "error"
    /\ cause' = "serialfail"
    /\ exitAt' = pc
    /\ pc' = "done"
    /\ UNCHANGED <<portOpen, argsPort, found, devices, console>>
    /\ UNCHANGED pipeline

InitStart ==
    /\ pc = "args"
    /\ portOpen = FALSE
    /\ now = 12 * HourSeconds + 1065
    /\ InitLocals(LineNoise, DeviceHeader, Payload(1))
    /\ verbose = FALSE
    /\ quiet = FALSE
    /\ argsPort \in {"", "ttyUSB0"}
    /\ found = NoPort
    /\ devices \in PortLists

NextStart ==
    \/ Replug
    \/ PortGiven
    \/ Suggest
    \/ NothingFound
    \/ SuggestAgain
    \/ SuggestGone
    \/ DeviceNotFound
    \/ OpenSerial
    \/ OpenSerialFail
    \/ Sync
    \/ ReadHeader
    \/ InitCheckpoint
    \/ OpenArchive

SpecStart == InitStart /\ [][NextStart]_vars

---------------------------------------------------------------------------
(* Flags: the same program under every setting of --verbose and --quiet,    *)
(* started at 12:17:45                                                      *)

InitFlags ==
    /\ now = 12 * HourSeconds + 1065
    /\ InitPipeline(LineNoise, DeviceHeader, MaxRecords)
    /\ \E v \in BOOLEAN, q \in BOOLEAN : InitArgs(v, q)

SpecFlags == InitFlags /\ [][Next]_vars

---------------------------------------------------------------------------
(* Progress: the same program with no interrupt and no error, the            *)
(* interpreter always executing the statement it has reached                 *)

Step ==
    \/ Sync
    \/ ReadHeader
    \/ InitCheckpoint
    \/ OpenArchive
    \/ CheckContinue
    \/ CheckRotate
    \/ ReadRecord
    \/ Decode
    \/ AppendRow

NextLive == Tick \/ Step

\* the run starts at 12:17:45
InitLive ==
    /\ now = 12 * HourSeconds + 1065
    /\ InitPipeline(LineNoise, DeviceHeader, MaxRecords)
    /\ InitArgs(FALSE, FALSE)

SpecLive == InitLive /\ [][NextLive]_vars /\ WF_vars(Step)

---------------------------------------------------------------------------
(* Vocabulary of the properties, stated without the program's own operators *)

FieldNames == <<"timestamp", "potId", "airLevel", "waterLevel", "soilHumidity",
                "soilHumidityPercent", "airTemperature", "airHumidity", "heatIndex">>

\* the row a reading is expected to give: its nine fields in the order of FieldNames
ExpectedRow(r) ==
    [kind |-> "row",
     cells |-> <<r["timestamp"], r["potId"], r["airLevel"], r["waterLevel"], r["soilHumidity"],
                 r["soilHumidityPercent"], r["airTemperature"], r["airHumidity"], r["heatIndex"]>>]

ExpectedRows(rs) == [i \in 1..Len(rs) |-> ExpectedRow(rs[i])]

Front(q) == SubSeq(q, 1, Len(q) - 1)

\* the marker occurs inside the first n bytes of the source
MarkerWithin(n) ==
    \E i \in 1..(n - 5) : SubSeq(source, i, i + 5) = <<154, 22, 82, 118, 168, 27>>

\* the first whole hour strictly after t, as a number of seconds
NextHourAfter(t) == ((t \div 3600) + 1) * 3600

\* the hour boundary at which the k-th archive expires
Deadline(k) == NextHourAfter(startup) + (k - 1) * 3600

NumRows(a) == Len(DataRows(a))

Current == archives[Len(archives)]

\* the data rows of all archives, in archive-creation order
RECURSIVE RowsUpTo(_)
RowsUpTo(k) == IF k = 0 THEN <<>> ELSE RowsUpTo(k - 1) \o DataRows(archives[k])

AllRows == RowsUpTo(Len(archives))

---------------------------------------------------------------------------
(* C1: whatever the startup time T (on an hour boundary or not), a rotation  *)
(* check on the first archive rotates exactly when the clock has reached the *)
(* first whole hour after T, so the first rotation fires at the first check  *)
(* at or after that hour and at no earlier check; startups at 12:17:45 and   *)
(* at 12:00:00 both rotate first at 13:00:00.                                *)

C1_FirstRotationAtNextHour ==
    [][ (pc = "check" /\ Len(archives) = 1 /\ pc' \in {"read", "open"}) =>
            /\ (pc' = "open") <=> (now >= NextHourAfter(startup))
            /\ startup \in {12 * 3600, 12 * 3600 + 17 * 60 + 45} =>
                   ((pc' = "open") <=> (now >= 13 * 3600)) ]_vars

\* started at 12:00:00 sharp, the first archive was rotated out at 13:00:00
C1_Witness ==
    /\ startup = 12 * 3600
    /\ Len(archives) = 2
    /\ archives[1].path = <<0, 12, 0, 0>>
    /\ archives[2].path = <<0, 13, 0, 0>>
    /\ NumRows(archives[1]) >= 1

---------------------------------------------------------------------------
(* C2: once the checkpoint is initialised it always equals the startup time  *)
(* truncated to the hour plus one hour per archive opened so far; a late     *)
(* rotation does not re-align it to the clock.                               *)

C2_CheckpointAdditive ==
    startup # NoTime =>
        checkpoint = (NextHourAfter(startup) - 3600) + Len(archives) * 3600

\* the second archive was opened more than an hour late (14:17:45) and its
\* checkpoint is 14:00:00, already in the past
C2_Witness ==
    /\ startup = 12 * 3600 + 17 * 60 + 45
    /\ Len(archives) = 2
    /\ archives[2].path = <<0, 14, 17, 45>>
    /\ checkpoint = 14 * 3600
    /\ now > checkpoint

---------------------------------------------------------------------------
(* C3: the rotation condition is evaluated after every append and before the *)
(* next read; a check lets the loop go on only while the clock is before the *)
(* archive's deadline and otherwise closes the archive.  So at most one row  *)
(* stamped at or after the deadline is ever in an archive, it is its last    *)
(* row, and nothing is read while the current archive holds such a row.      *)

LateRows(k) == {i \in 1..NumRows(archives[k]) : DataRows(archives[k])[i].cells[1] >= Deadline(k)}

C3_Flow ==
    /\ (pc = "append" /\ pc' \notin {"append", "done"}) =>
            pc' = "check" /\ NumRows(archives'[Len(archives)]) = NumRows(Current) + 1
    /\ (pc' = "read" /\ pc # "read") => pc = "check" /\ now < Deadline(Len(archives))
    /\ (pc' = "decode" /\ pc # "decode") => pc = "read"
    /\ (pc = "check" /\ now >= Deadline(Len(archives)) /\ pc' # "check") =>
            ~archives'[Len(archives)].open /\ pc' \in {"open", "done"}

C3_NoSecondLateRow ==
    \A k \in 1..Len(archives) :
        /\ Cardinality(LateRows(k)) <= 1
        /\ LateRows(k) \subseteq {NumRows(archives[k])}
        /\ (k = Len(archives) /\ pc \in {"read", "decode", "append"}) => LateRows(k) = {}

C3_RotationCheckBetweenReadings == [][C3_Flow]_vars /\ []C3_NoSecondLateRow

\* a stall: the second reading of the first archive was stamped after the
\* deadline, the archive was closed right after it and a new one opened
C3_Witness ==
    /\ Len(archives) = 2
    /\ NumRows(archives[1]) = 2
    /\ LateRows(1) = {2}
    /\ ~archives[1].open
    /\ archives[2].open

---------------------------------------------------------------------------
(* C4: after a rotation the pipeline goes on with the new archive, and every *)
(* archive that is rotated out holds at least one data row (no two rotations *)
(* without a reading between them).  This fails: the loop condition is       *)
(* evaluated before the first read of a new archive.                         *)

\* the k-th archive was closed by the rotation check
RotatedOut(k) == k < Len(archives) \/ (k = Len(archives) /\ pc = "open")

C4_Original ==
    \A k \in 1..Len(archives) : RotatedOut(k) => NumRows(archives[k]) >= 1

(* C4 as amended: the rotation condition is evaluated again right after an   *)
(* archive is opened; every check that lets the loop go on is followed by    *)
(* one reading appended to that archive, so an archive that is rotated out   *)
(* holds one data row per check it passed, and only its header when its      *)
(* first check already found the clock at or past the checkpoint.            *)

C4_RowsPerPassedCheck ==
    \A k \in 1..Len(archives) :
        /\ RotatedOut(k) =>
              /\ archives[k].checks >= 1
              /\ NumRows(archives[k]) = archives[k].checks - 1
              /\ now >= Deadline(k)
        /\ (k = Len(archives) /\ pc = "check") =>
              NumRows(archives[k]) = archives[k].checks
        /\ (k = Len(archives) /\ pc \in {"read", "decode", "append"}) =>
              NumRows(archives[k]) = archives[k].checks - 1

\* catching up after a stall: the second archive was rotated out with its
\* header only, and streaming went on in the third
C4_Witness ==
    /\ Len(archives) = 3
    /\ NumRows(archives[1]) >= 1
    /\ NumRows(archives[2]) = 0
    /\ archives[2].checks = 1
    /\ NumRows(archives[3]) >= 1

---------------------------------------------------------------------------
(* C5: an interrupt that arrives while an archive is open for streaming      *)
(* closes that archive with exactly the lines written so far, and main()     *)
(* returns without error.                                                    *)

C5_InterruptStep ==
    (cause = "none" /\ cause' = "interrupt" /\ pc \in {"check", "read", "decode", "append"}) =>
        /\ Current.open
        /\ pc' = "done"
        /\ exitStatus' = "ok"
        /\ Len(archives') = Len(archives)
        /\ \A k \in 1..Len(archives) :
              /\ ~archives'[k].open
              /\ archives'[k].lines = archives[k].lines
              /\ archives'[k].path = archives[k].path

C5_InterruptClosesArchive == [][C5_InterruptStep]_vars

\* interrupted at the loop condition with two rows in the open archive
C5_Witness ==
    /\ pc = "done"
    /\ cause = "interrupt"
    /\ exitAt = "check"
    /\ exitStatus = "ok"
    /\ ~Current.open
    /\ NumRows(Current) = 2

---------------------------------------------------------------------------
(* C6: an interrupt takes effect only between iterations, so every record    *)
(* consumed from the source is a row of some archive when main() has ended   *)
(* on an interrupt.  This fails: KeyboardInterrupt is raised wherever the    *)
(* program is.                                                               *)

C6_Original ==
    (pc = "done" /\ cause = "interrupt") => Len(AllRows) = Len(arrivals)

(* C6 as amended: an interrupt takes effect at the point the program has     *)
(* reached, also between the read of a record and its append; the record in  *)
(* flight at that point is discarded.  When main() has ended, the rows of the *)
(* archives are the records consumed, in order, less that one record.        *)

InFlightAtExit == cause = "interrupt" /\ exitAt \in {"decode", "append"}

C6_InterruptDropsInFlightOnly ==
    pc = "done" =>
        /\ Len(AllRows) = Len(arrivals) - (IF InFlightAtExit THEN 1 ELSE 0)
        /\ \A i \in 1..Len(AllRows) : AllRows[i].cells[2] = i

\* two records were consumed, the interrupt came before the second was appended
C6_Witness ==
    /\ pc = "done"
    /\ cause = "interrupt"
    /\ exitAt = "append"
    /\ exitStatus = "ok"
    /\ Len(arrivals) = 2
    /\ Len(AllRows) = 1

---------------------------------------------------------------------------
(* C7: when all N records consumed arrived before the first rotation         *)
(* boundary, the first archive, once closed, holds one header row and then   *)
(* exactly N data rows.  This fails when an interrupt closes the archive     *)
(* while the last record is between its read and its append.                 *)

AllBeforeFirstBoundary ==
    /\ Len(archives) >= 1
    /\ ~archives[1].open
    /\ \A i \in 1..Len(arrivals) : arrivals[i] < Deadline(1)

C7_Original ==
    AllBeforeFirstBoundary =>
        /\ Len(archives[1].lines) = 1 + Len(arrivals)
        /\ archives[1].lines[1].kind = "header"
        /\ NumRows(archives[1]) = Len(arrivals)

(* C7 as amended: ... one header row and then exactly N data rows, or N - 1  *)
(* when the archive is closed by an interrupt that arrives after the last    *)
(* record was read and before it was appended.                               *)

C7_RowCount ==
    AllBeforeFirstBoundary =>
        LET n == Len(arrivals) - (IF InFlightAtExit THEN 1 ELSE 0)
        IN  /\ Len(archives[1].lines) = 1 + n
            /\ archives[1].lines[1].kind = "header"
            /\ NumRows(archives[1]) = n
            /\ \A i \in 1..n : archives[1].lines[i + 1] = ExpectedRow(decoded[i])

\* two records, both read before 13:00:00; the archive was closed by the
\* rotation that followed
C7_Witness ==
    /\ AllBeforeFirstBoundary
    /\ Len(arrivals) = 2
    /\ cause = "none"
    /\ pc = "open"
    /\ NumRows(archives[1]) = 2

---------------------------------------------------------------------------
(* C8: the data rows of all archives, in archive-creation order, are the     *)
(* decoded readings in arrival order, whenever no reading is waiting for its *)
(* append.  This fails after an interrupt between the decode and the append. *)

C8_Original ==
    pc # "append" => AllRows = ExpectedRows(decoded)

(* C8 as amended: ... are the decoded readings in arrival order, none        *)
(* duplicated or reordered and none dropped but the one reading that was     *)
(* decoded and not yet appended when an interrupt ended main().              *)

C8_RowsInArrivalOrder ==
    AllRows = ExpectedRows(IF pc = "append" \/ exitAt = "append"
                           THEN Front(decoded) ELSE decoded)

\* two readings spread over two archives with an empty one between them
C8_Witness ==
    /\ Len(archives) = 3
    /\ NumRows(archives[1]) = 1
    /\ NumRows(archives[2]) = 0
    /\ NumRows(archives[3]) = 1
    /\ Len(decoded) = 2
    /\ pc = "check"

---------------------------------------------------------------------------
(* C9: every archive, the first and each one opened by a rotation, has       *)
(* exactly one header line, which is its first line and is the fixed list of *)
(* nine field names; every other line is a data row of nine cells.           *)

C9_HeaderFixed ==
    \A k \in 1..Len(archives) :
        /\ Len(archives[k].lines) >= 1
        /\ archives[k].lines[1].kind = "header"
        /\ archives[k].lines[1].cells = FieldNames
        /\ \A i \in 2..Len(archives[k].lines) :
              /\ archives[k].lines[i].kind = "row"
              /\ Len(archives[k].lines[i].cells) = 9

\* two archives, the second opened by a rotation, each with data after its header
C9_Witness ==
    /\ Len(archives) = 2
    /\ NumRows(archives[1]) >= 1
    /\ NumRows(archives[2]) >= 1
    /\ archives[2].lines[2].cells[2] # archives[1].lines[2].cells[2]

---------------------------------------------------------------------------
(* C10: for a source noise + marker + 22-byte header + payload, whatever the *)
(* noise, synchronization consumes exactly noise + marker + header and the   *)
(* decoder's first read starts at the first byte of the payload.  This fails *)
(* when the noise itself contains the marker.                                *)

FramedAtPayload ==
    /\ pc \in {"init", "open", "check", "read"} => pos = noiseLen + 6 + 22
    /\ pc = "decode" =>
          /\ pos = noiseLen + 6 + 22 + 28
          /\ data = SubSeq(source, noiseLen + 29, noiseLen + 56)

C10_Original == FramedAtPayload

(* C10 as amended: ... with noise that does not contain the 6-byte marker,   *)
(* synchronization consumes exactly noise + marker + header ...              *)

C10_FramingCleanNoise == ~MarkerWithin(noiseLen) => FramedAtPayload

\* noise ending in the first five bytes of the marker, a device header that
\* itself begins with the marker: the decoder has read the first record
C10_Witness ==
    /\ pc = "decode"
    /\ noiseLen = 6
    /\ SubSeq(source, 2, 6) = <<154, 22, 82, 118, 168>>
    /\ SubSeq(source, 13, 18) = <<154, 22, 82, 118, 168, 27>>
    /\ ~MarkerWithin(noiseLen)
    /\ Unpack(data)[4] = 1

---------------------------------------------------------------------------
(* C11: the reading decoded from a 28-byte record (8 unsigned 16-bit         *)
(* integers, then 3 floats) has potId, airLevel, waterLevel, soilHumidity    *)
(* and soilHumidityPercent equal to wire integers 3..7 (counted from 0), its *)
(* three float fields equal to the three wire floats in order, and nothing   *)
(* else but the timestamp, which is the clock; wire integers 0..2 are in no  *)
(* field.                                                                    *)

\* the i-th byte of the first record on the wire
WireByte(i) == source[noiseLen + 6 + 22 + i]

\* the k-th wire integer of the first record, k counted from 0
WireInt(k) == WireByte(2 * k + 1) + 256 * WireByte(2 * k + 2)

\* the j-th wire float of the first record, j counted from 0, as sign, exponent, fraction
WireFloat(j) ==
    <<WireByte(16 + 4 * j + 4) \div 128,
      2 * (WireByte(16 + 4 * j + 4) % 128) + (WireByte(16 + 4 * j + 3) \div 128),
      65536 * (WireByte(16 + 4 * j + 3) % 128) + 256 * WireByte(16 + 4 * j + 2)
          + WireByte(16 + 4 * j + 1)>>

IntFields == {"potId", "airLevel", "waterLevel", "soilHumidity", "soilHumidityPercent"}

ReadingFromWire(r) ==
    /\ DOMAIN r = {FieldNames[i] : i \in 1..9}
    /\ r["potId"] = WireInt(3)
    /\ r["airLevel"] = WireInt(4)
    /\ r["waterLevel"] = WireInt(5)
    /\ r["soilHumidity"] = WireInt(6)
    /\ r["soilHumidityPercent"] = WireInt(7)
    /\ r["airTemperature"] = WireFloat(0)
    /\ r["airHumidity"] = WireFloat(1)
    /\ r["heatIndex"] = WireFloat(2)
    /\ r["timestamp"] = now
    /\ \A k \in 0..2 :
          WireInt(k) \notin {WireInt(m) : m \in 3..7} =>
              \A f \in IntFields : r[f] # WireInt(k)

C11_DecodeMapping ==
    /\ pc = "append" => ReadingFromWire(data)
    /\ Len(decoded) = 1 => ReadingFromWire(decoded[1])

\* the three discarded integers are 65535, the five kept ones 258, the first
\* float is negative; the reading has been built
C11_Witness ==
    /\ pc = "append"
    /\ \A k \in 0..2 : WireInt(k) = 65535
    /\ \A k \in 3..7 : WireInt(k) = 258
    /\ WireFloat(0) = <<1, 129, 197121>>
    /\ data["potId"] = 258
    /\ data["airTemperature"][1] = 1

---------------------------------------------------------------------------
(* C13: when the port raises during synchronization or during a record read, *)
(* or opening an archive raises, the process ends with an error at that very *)
(* step and nothing is retried: that step writes no row, reads no byte and   *)
(* opens no archive, and no later step reads, appends or opens anything.     *)

Failures == {"ioerror", "openfail"}

C13_Ended ==
    cause \in Failures =>
        /\ pc = "done"
        /\ exitStatus = "error"
        /\ ~portOpen
        /\ \A i \in 1..Len(archives) : ~archives[i].open

C13_FailStep ==
    (cause \notin Failures /\ cause' \in Failures) =>
        /\ pc \in {"sync", "hdr", "read", "open"}
        /\ pos' = pos
        /\ arrivals' = arrivals
        /\ decoded' = decoded
        /\ Len(archives') = Len(archives)
        /\ \A i \in 1..Len(archives) : archives'[i].lines = archives[i].lines

C13_Afterwards ==
    cause \in Failures =>
        /\ pc' = "done"
        /\ pos' = pos
        /\ arrivals' = arrivals
        /\ decoded' = decoded
        /\ archives' = archives

C13_NoRetry == [](C13_Ended) /\ [][C13_FailStep /\ C13_Afterwards]_vars

\* the port raised during the read of the second record: one row is on disk
C13_Witness ==
    /\ pc = "done"
    /\ cause = "ioerror"
    /\ exitAt = "read"
    /\ Len(arrivals) = 1
    /\ Len(AllRows) = 1

---------------------------------------------------------------------------
(* C15: between the start of a record read and the append of its reading the *)
(* archive is neither closed nor replaced (unless the process ends there):   *)
(* the reading is appended to the archive that was open when its read began. *)

InFlight == pc \in {"read", "decode", "append"}

\* the archives before the current one, and the current one's identity, are kept
SameArchive ==
    /\ Len(archives') = Len(archives)
    /\ Current.open /\ Current'.open
    /\ Current'.path = Current.path
    /\ \A i \in 1..(Len(archives) - 1) : archives'[i] = archives[i]

C15_Step ==
    /\ (InFlight /\ pc' # "done") => SameArchive
    /\ (InFlight /\ pc' # "done" /\ pc # "append") => Current'.lines = Current.lines
    /\ (pc = "append" /\ pc' = "check") =>
           /\ DataRows(Current') = Append(DataRows(Current), ExpectedRow(decoded[Len(decoded)]))
           /\ Current.checks = Current'.checks

C15_NoRotationInFlight == [][C15_Step]_vars

\* an hour boundary passed while the second reading was in flight; the reading
\* went to the first archive, and the rotation came afterwards
C15_Witness ==
    /\ Len(archives) = 2
    /\ Len(arrivals) = 2
    /\ arrivals[2] < Deadline(1)
    /\ decoded[2]["timestamp"] >= Deadline(1)
    /\ NumRows(archives[1]) = 2
    /\ NumRows(archives[2]) = 0

---------------------------------------------------------------------------
(* C16: at most one archive is open at any time, and it is the newest; when  *)
(* a new archive is created every earlier one is already closed; a closed    *)
(* archive never changes again, so no row is appended to it.                 *)

OpenArchives == {i \in 1..Len(archives) : archives[i].open}

C16_OneOpen ==
    /\ Cardinality(OpenArchives) <= 1
    /\ OpenArchives \subseteq {Len(archives)}
    /\ pc = "open" => OpenArchives = {}
    /\ pc \in {"check", "read", "decode", "append"} => OpenArchives = {Len(archives)}

C16_Step ==
    /\ Len(archives') > Len(archives) => OpenArchives = {}
    /\ \A i \in 1..Len(archives) : ~archives[i].open => archives'[i] = archives[i]
    /\ \A i \in 1..Len(archives) :
           archives'[i].lines # archives[i].lines => (archives[i].open /\ archives'[i].open)

C16_SingleOpenArchive == [](C16_OneOpen) /\ [][C16_Step]_vars

\* after a rotation: the first archive is closed with its row, the second is
\* open and has received a row
C16_Witness ==
    /\ Len(archives) = 2
    /\ ~archives[1].open
    /\ NumRows(archives[1]) = 1
    /\ archives[2].open
    /\ NumRows(archives[2]) = 1

---------------------------------------------------------------------------
(* C17: synchronization (marker, then 22-byte header) runs once, before any  *)
(* record is read and before any archive is opened; it is never entered      *)
(* again, not after a rotation either; after it the source is consumed only  *)
(* 28 bytes at a time.                                                       *)

Syncing == pc \in {"sync", "hdr"}

C17_SyncFirst ==
    /\ Syncing => (archives = <<>> /\ arrivals = <<>> /\ decoded = <<>> /\ pos <= noiseLen + 6)
    /\ (archives # <<>> \/ arrivals # <<>>) => pos = noiseLen + 6 + 22 + 28 * Len(arrivals)

C17_Step ==
    /\ Syncing' => Syncing
    /\ (pc = "hdr") => pc' # "sync"
    /\ ~Syncing => (pos' = pos \/ (pos' = pos + 28 /\ pc = "read" /\ pc' = "decode"))

C17_SyncOnce == [](C17_SyncFirst) /\ [][C17_Step]_vars

\* a rotation has happened and the second record was read right after the first
C17_Witness ==
    /\ Len(archives) = 2
    /\ Len(arrivals) = 2
    /\ NumRows(archives[2]) = 1
    /\ pos = noiseLen + 6 + 22 + 28 + 28

---------------------------------------------------------------------------
(* C18: the clock never goes back, and then an archive holding at least one  *)
(* data row has a path no later archive has: only archives without data rows *)
(* can be overwritten by a later open.                                       *)

C18_RowsNeverOverwritten ==
    \A j, k \in 1..Len(archives) :
        (j < k /\ archives[j].path = archives[k].path) => NumRows(archives[j]) = 0

\* catching up two hours at 14:17:45: the second and the third archive are
\* opened within the same second, the second is empty
C18_Witness ==
    /\ Len(archives) = 3
    /\ archives[2].path = archives[3].path
    /\ NumRows(archives[1]) = 1
    /\ NumRows(archives[2]) = 0

---------------------------------------------------------------------------
(* C19: with no interrupt and no error, and records still to come, another   *)
(* reading is eventually appended however far the clock has run ahead; a run *)
(* of consecutive archives closed without a data row is no longer than the   *)
(* number of whole hours by which the clock is ahead of the checkpoint that  *)
(* was in force when the run began.                                          *)

\* archives j..k were all rotated out without a data row
EmptyRun(j, k) == \A i \in j..k : ~archives[i].open /\ NumRows(archives[i]) = 0

C19_Bound ==
    \A j, k \in 1..Len(archives) :
        (j <= k /\ EmptyRun(j, k)) => (k - j + 1) <= (now - Deadline(j - 1)) \div 3600

C19_CatchUp ==
    /\ [](C19_Bound)
    /\ \A n \in 0..(MaxRecords - 1) : (Len(AllRows) = n) ~> (Len(AllRows) = n + 1)

\* the clock ran two hours ahead after the first reading: one empty archive,
\* then the second reading in the third archive
C19_Witness ==
    /\ Len(archives) = 3
    /\ NumRows(archives[1]) = 1
    /\ EmptyRun(2, 2)
    /\ NumRows(archives[3]) = 1

---------------------------------------------------------------------------
(* C14: whatever --verbose and --quiet are, the archives are those of the    *)
(* run on the same bytes and the same clock readings with both flags off:    *)
(* same paths, same header, same rows in the same order, same open/closed    *)
(* state.  Any two settings of the flags therefore give the same archives.   *)

C14_FlagsLeaveArchivesAlone == archives = twin

\* a verbose, not quiet run that has written two archives and two rows, and
\* printed two paths and two readings
C14_Witness ==
    /\ verbose /\ ~quiet
    /\ Len(archives) = 2
    /\ Len(AllRows) = 2
    /\ Len(console) = 4
    /\ Len(twin) = 2

---------------------------------------------------------------------------
(* C20: when main() has ended after the port was opened, by an interrupt,    *)
(* a port error or a failure to open an archive, the port is closed, no      *)
(* archive is left open, and the archive that was open was closed before the *)
(* port; an interrupt during synchronization finds no archive created.       *)

C20_ExitCloses ==
    /\ pc = "done" =>
          /\ ~portOpen
          /\ \A i \in 1..Len(archives) : ~archives[i].open
          /\ Len(closeLog) = Len(archives) + 1
          /\ closeLog[Len(closeLog)] = "port"
          /\ \A i \in 1..Len(archives) : closeLog[i] = "archive"
          /\ (cause = "interrupt" /\ exitAt \in {"sync", "hdr"}) => archives = <<>>
    /\ pc # "done" =>
          /\ portOpen
          /\ \A i \in 1..Len(closeLog) : closeLog[i] = "archive"

\* the port raised during a record read after one rotation: the second
\* archive was closed, then the port
C20_Witness ==
    /\ pc = "done"
    /\ cause = "ioerror"
    /\ exitAt = "read"
    /\ Len(archives) = 2
    /\ closeLog = <<"archive", "archive", "port">>

---------------------------------------------------------------------------
(* C12: with no port argument, once lines 68-80 are behind, either the       *)
(* pipeline runs on an attached port whose manufacturer is the known one, or *)
(* "Device not found" was printed and main() returned without error, the     *)
(* port never opened and no archive created; the enumeration of the ports    *)
(* never makes main() end with an error.  (A failure of Serial() to open the *)
(* chosen device is not an outcome of the enumeration and is left aside.)    *)

\* no port was named on the command line
NoPortArgument == argsPort = "" \/ found # NoPort

OnMatchingPort ==
    /\ portOpen
    /\ exitStatus = "running"
    /\ \E i \in 1..Len(devices) :
          devices[i].device = argsPort /\ devices[i].manufacturer = "Arduino (www.arduino.cc)"

CleanNotFound ==
    /\ pc = "done"
    /\ exitStatus = "ok"
    /\ console = <<[kind |-> "text", what |-> "Device not found"]>>
    /\ ~portOpen
    /\ archives = <<>>
    /\ pos = 0

C12_Original ==
    (NoPortArgument /\ pc \notin {"args", "found", "serial"} /\ cause # "serialfail") =>
        (OnMatchingPort \/ CleanNotFound)

====
